---- MODULE Spec2Model ----
(***************************************************************************)
(* Model of src/app.py: the "Analyze Diagram & Generate Tables via API"   *)
(* button handler, the results area and generate_full_html_doc.           *)
(*                                                                         *)
(* Text is a sequence of symbols.  A symbol is either one character that   *)
(* the code looks at (a backtick, a brace, a bracket, a quote, a colon,    *)
(* a comma, a blank, a newline) or an atomic run of other characters (a    *)
(* word such as json, a number, an HTML tag).  Python None is the empty    *)
(* tuple and a present value x is the one-element tuple <<x>>.             *)
(***************************************************************************)
EXTENDS Integers, Sequences, FiniteSets, TLC

\* the backtick character (a string of this language cannot hold one)
Tick == "BACKTICK"

None == <<>>
Some(x) == <<x>>

(***************************************************************************)
(* Characters                                                              *)
(***************************************************************************)
\* str.strip(), the regex class \s and JSON whitespace agree on these two.
IsSpace(c) == c \in {" ", "\n"}

\* str.lower() / re.IGNORECASE on the symbols that carry letters in upper case.
Lower(c) ==
  CASE c = "JSON" -> "json"
    [] c = "Json" -> "json"
    [] c = "<!DOCTYPE html" -> "<!doctype html"
    [] c = "<!DocType HTML" -> "<!doctype html"
    [] OTHER -> c

RECURSIVE SkipWs(_, _)
\* index of the first non-whitespace symbol of s at or after i
SkipWs(s, i) ==
  IF i <= Len(s) /\ IsSpace(s[i]) THEN SkipWs(s, i + 1) ELSE i

Min(S) == CHOOSE x \in S : \A y \in S : x <= y
Max(S) == CHOOSE x \in S : \A y \in S : x >= y

(***************************************************************************)
(* json.loads: a recursive-descent reading of the JSON grammar.  Each      *)
(* ...End operator returns the index after the construct, or 0 when the    *)
(* text is not well formed (json.JSONDecodeError).                         *)
(***************************************************************************)
Numbers == {"1", "2"}

RECURSIVE ScanString(_, _)
\* k is inside a string literal: index after the closing quote.  A raw
\* newline inside a literal is an invalid control character (strict mode).
ScanString(s, k) ==
  IF k > Len(s) THEN 0
  ELSE IF s[k] = "\"" THEN k + 1
  ELSE IF s[k] = "\n" THEN 0
  ELSE ScanString(s, k + 1)

RECURSIVE ValueEnd(_, _)
RECURSIVE MembersEnd(_, _)
RECURSIVE ElementsEnd(_, _)

ValueEnd(s, i) ==
  IF i > Len(s) \/ i = 0 THEN 0
  ELSE CASE s[i] = "{" ->
              LET j == SkipWs(s, i + 1)
              IN  IF j <= Len(s) /\ s[j] = "}" THEN j + 1 ELSE MembersEnd(s, j)
         [] s[i] = "[" ->
              LET j == SkipWs(s, i + 1)
              IN  IF j <= Len(s) /\ s[j] = "]" THEN j + 1 ELSE ElementsEnd(s, j)
         [] s[i] = "\"" -> ScanString(s, i + 1)
         [] s[i] \in Numbers -> i + 1
         [] OTHER -> 0

\* i is where a "key": value member must start
MembersEnd(s, i) ==
  IF i > Len(s) \/ s[i] # "\"" THEN 0
  ELSE LET k == ScanString(s, i + 1)
           c == SkipWs(s, k)
       IN  IF k = 0 \/ c > Len(s) \/ s[c] # ":" THEN 0
           ELSE LET e == ValueEnd(s, SkipWs(s, c + 1))
                    n == SkipWs(s, e)
                IN  IF e = 0 \/ n > Len(s) THEN 0
                    ELSE IF s[n] = "}" THEN n + 1
                    ELSE IF s[n] = "," THEN MembersEnd(s, SkipWs(s, n + 1))
                    ELSE 0

\* i is where an array element must start
ElementsEnd(s, i) ==
  LET e == ValueEnd(s, i)
      n == SkipWs(s, e)
  IN  IF e = 0 \/ n > Len(s) THEN 0
      ELSE IF s[n] = "]" THEN n + 1
      ELSE IF s[n] = "," THEN ElementsEnd(s, SkipWs(s, n + 1))
      ELSE 0

\* the whole text is one JSON value, surrounded by optional whitespace
IsJson(s) ==
  LET e == ValueEnd(s, SkipWs(s, 1))
  IN  e # 0 /\ SkipWs(s, e) = Len(s) + 1

RECURSIVE Canon(_, _, _)
\* the value a JSON text denotes: its symbols without the insignificant
\* whitespace (whitespace inside string literals is kept)
Canon(s, i, inStr) ==
  IF i > Len(s) THEN <<>>
  ELSE IF s[i] = "\"" THEN <<s[i]>> \o Canon(s, i + 1, ~inStr)
  ELSE IF IsSpace(s[i]) /\ ~inStr THEN Canon(s, i + 1, inStr)
  ELSE <<s[i]>> \o Canon(s, i + 1, inStr)

RECURSIVE Pairs(_, _)
\* the (key, value) pairs of a well-formed object, i at its first member
Pairs(s, i) ==
  IF s[i] = "}" THEN <<>>
  ELSE LET k == ScanString(s, i + 1)
           c == SkipWs(s, k)
           v == SkipWs(s, c + 1)
           e == ValueEnd(s, v)
           n == SkipWs(s, e)
       IN  <<[k |-> SubSeq(s, i + 1, k - 2), v |-> Canon(SubSeq(s, v, e - 1), 1, FALSE)]>>
             \o (IF s[n] = "," THEN Pairs(s, SkipWs(s, n + 1)) ELSE <<>>)

\* a Python dict: key -> value, a repeated key keeps its last value
DictOf(pairs) ==
  [key \in {pairs[n].k : n \in DOMAIN pairs} |->
     pairs[Max({n \in DOMAIN pairs : pairs[n].k = key})].v]

\* json.loads(s) for a text that starts with "{": Some(dict), or None when
\* json.JSONDecodeError is raised
Loads(s) ==
  IF IsJson(s)
  THEN LET i == SkipWs(s, 1) IN Some(DictOf(Pairs(s, SkipWs(s, i + 1))))
  ELSE None

\* isinstance(v, list) and isinstance(v, dict) for a value of a loaded dict
IsInstance(v, type) == v[1] = (IF type = "list" THEN "[" ELSE "{")
\* "not x" for a list or dict value x
IsEmptyValue(v) == Len(v) = 2

(***************************************************************************)
(* re.search(r'TTTjson\s*(\{.*?\})\s*TTT', raw_text, DOTALL | IGNORECASE),  *)
(* T standing for one backtick character                                   *)
(***************************************************************************)
Ticks(s, p) == p + 2 <= Len(s) /\ s[p] = Tick /\ s[p + 1] = Tick /\ s[p + 2] = Tick

\* where '{' must stand for a match that starts at p, 0 if it cannot
BraceOf(s, p) ==
  IF Ticks(s, p) /\ p + 3 <= Len(s) /\ Lower(s[p + 3]) = "json"
  THEN LET q == SkipWs(s, p + 4)
       IN  IF q <= Len(s) /\ s[q] = "{" THEN q ELSE 0
  ELSE 0

\* the '}' positions that can end group 1 when it starts at q
GroupEnds(s, q) ==
  {e \in (q + 1)..Len(s) : s[e] = "}" /\ Ticks(s, SkipWs(s, e + 1))}

MatchStarts(s) ==
  {p \in 1..Len(s) : BraceOf(s, p) # 0 /\ GroupEnds(s, BraceOf(s, p)) # {}}

\* match.group(1) of the leftmost match with the shortest .*?, None if no match
FencedMatch(s) ==
  LET starts == MatchStarts(s)
  IN  IF starts = {} THEN None
      ELSE LET q == BraceOf(s, Min(starts))
           IN  Some(SubSeq(s, q, Min(GroupEnds(s, q))))

\* raw_text.find('{') and raw_text.rfind('}') as 1-based indices, 0 for -1
Find(s, c) == IF \E i \in 1..Len(s) : s[i] = c THEN Min({i \in 1..Len(s) : s[i] = c}) ELSE 0
RFind(s, c) == IF \E i \in 1..Len(s) : s[i] = c THEN Max({i \in 1..Len(s) : s[i] = c}) ELSE 0

\* the brace scan stops at the first '}' instead of the last
JsonString_firstclose(text) ==
  LET match == FencedMatch(text)
  IN  IF match # None THEN match
      ELSE IF Find(text, "{") # 0 /\ Find(text, "}") > Find(text, "{")
           THEN Some(SubSeq(text, Find(text, "{"), Find(text, "}")))
           ELSE None

\* lines 196-213: the candidate JSON text, None when the brace scan gives up
JsonString(text) ==
  LET match == FencedMatch(text)
  IN  IF match # None THEN match
      ELSE IF Find(text, "{") # 0 /\ RFind(text, "}") > Find(text, "{")
           THEN Some(SubSeq(text, Find(text, "{"), RFind(text, "}")))
           ELSE None

MsgNoMatchingBraces == "Could not find valid JSON structure (matching braces)."
MsgNoStartingBrace == "Could not find JSON starting brace '{'."
MsgDecode == "Failed to decode the Gemini response as JSON: {e}"

\* the two messages of the brace scan change places
ScanError_swapped(text) ==
  IF Find(text, "{") # 0 THEN MsgNoStartingBrace ELSE MsgNoMatchingBraces

\* lines 207 and 211: the error the brace scan stores when it gives up
ScanError(text) ==
  IF Find(text, "{") # 0 THEN MsgNoMatchingBraces ELSE MsgNoStartingBrace

RawKey == <<"detailed_raw_data_blocks_of_diagram">>
RefinedKey == <<"refined_data">>

\* Python truth value of an optional text, list or dict / of an optional message
Truthy(opt) == opt # None /\ opt[1] # <<>>
TruthyMsg(opt) == opt # None /\ opt[1] # ""

(***************************************************************************)
(* generate_full_html_doc                                                  *)
(***************************************************************************)
RECURSIVE LStrip(_)
LStrip(s) == IF s # <<>> /\ IsSpace(Head(s)) THEN LStrip(Tail(s)) ELSE s
RECURSIVE RStrip(_)
RStrip(s) == IF s # <<>> /\ IsSpace(s[Len(s)]) THEN RStrip(SubSeq(s, 1, Len(s) - 1)) ELSE s
Strip(s) == RStrip(LStrip(s))
LowerText(s) == [i \in DOMAIN s |-> Lower(s[i])]
StartsWith(s, prefix) == Len(s) >= Len(prefix) /\ SubSeq(s, 1, Len(prefix)) = prefix

Doctype == <<"<!doctype html">>

\* the input is not trimmed before the look at its beginning
generate_full_html_doc_nostrip(table_html_content, title) ==
  IF table_html_content # <<>> /\ StartsWith(LowerText(table_html_content), Doctype)
  THEN table_html_content
  ELSE <<"<!DOCTYPE html", ">", "\n", "<html><head><title>", title, "</title>",
         "TABLE_STYLES", "</head>", "\n", "<body><h1>", title, "</h1>">>
         \o table_html_content \o <<"</body></html>">>

generate_full_html_doc(table_html_content, title) ==
  IF table_html_content # <<>> /\ StartsWith(LowerText(Strip(table_html_content)), Doctype)
  THEN table_html_content
  ELSE <<"<!DOCTYPE html", ">", "\n", "<html><head><title>", title, "</title>",
         "TABLE_STYLES", "</head>", "\n", "<body><h1>", title, "</h1>">>
         \o table_html_content \o <<"</body></html>">>

(***************************************************************************)
(* Exceptions and the messages their handlers store                        *)
(***************************************************************************)
\* lines 242-246: the handler chain around the Gemini call
GeminiMessage(exc) ==
  CASE exc = "PermissionDenied" -> "Gemini Auth Error: Check API Key. Details: {e}"
    [] exc = "ResourceExhausted" -> "Gemini Quota Exceeded. Details: {e}"
    [] exc \in {"BlockedPromptException", "StopCandidateException"} ->
         "Gemini Content Error: Prompt or response blocked. Details: {e}"
    [] exc = "AttributeError" -> "Could not access Gemini response data (AttributeError)."
    [] OTHER -> "Unexpected Gemini analysis error: {type(e).__name__} - {e}"

GeminiExceptions ==
  {"PermissionDenied", "ResourceExhausted", "BlockedPromptException",
   "StopCandidateException", "AttributeError", "Exception"}

\* the classes an exception raised by requests.post / raise_for_status is an
\* instance of (requests.exceptions: SSLError derives from ConnectionError)
Classes(exc) ==
  CASE exc = "Timeout" -> {"Timeout", "RequestException", "Exception"}
    [] exc = "ConnectionError" -> {"ConnectionError", "RequestException", "Exception"}
    [] exc = "SSLError" -> {"SSLError", "ConnectionError", "RequestException", "Exception"}
    [] exc = "HTTPError" -> {"HTTPError", "RequestException", "Exception"}
    [] exc = "RequestException" -> {"RequestException", "Exception"}
    [] OTHER -> {"Exception"}

RenderExceptions ==
  {"Timeout", "ConnectionError", "SSLError", "HTTPError", "RequestException", "Exception"}

\* lines 266-271 and 293-298: the except clauses in the order they are tried
Handlers ==
  << [class |-> "Timeout", msg |-> "Table API request timed out."],
     [class |-> "ConnectionError", msg |-> "Could not connect to Table API at {TABLE_CONVERSION_API_URL}."],
     [class |-> "SSLError", msg |-> "SSL Error connecting to Table API: {e}."],
     [class |-> "HTTPError", msg |-> "Table API Error: {status_code} {reason}. Response: {text[:200]}..."],
     [class |-> "RequestException", msg |-> "Error calling Table API: {e}"],
     [class |-> "Exception", msg |-> "Unexpected error during Table API call: {type(e).__name__} - {e}"] >>

\* the clauses that match an exception
Catching(exc) == {n \in DOMAIN Handlers : Handlers[n].class \in Classes(exc)}

\* the message stored for an exception: that of the first clause that matches
RenderMessage(exc) == Handlers[Min(Catching(exc))].msg

MsgEmpty == "The section is empty. Cannot generate table."
MsgMissing == "Data structure was missing or invalid in Gemini response. Cannot call Table API."

(***************************************************************************)
(* The replies and responses the external services are taken to give       *)
(***************************************************************************)
MaxProse == 2

Q == "\""

\* the texts of at most n symbols of S
SeqsUpTo(S, n) == UNION {[1..k -> S] : k \in 0..n}

\* prose around the JSON, with stray braces
ProseSymbols == {"x", "{", "}"}

\* the members an object of the reply can have under each key: none, or one
RawMembers ==
  { <<>>,
    << <<Q>> \o RawKey \o <<Q, ":", " ", "[", "1", ",", " ", "2", "]">> >>,
    << <<Q>> \o RawKey \o <<Q, ":", "[", "]">> >>,
    << <<Q>> \o RawKey \o <<Q, ":", "{", Q, "a", Q, ":", "1", "}">> >> }
RefinedMembers ==
  { <<>>,
    << <<Q>> \o RefinedKey \o <<Q, ":", " ", "{", Q, "a", Q, ":", " ", "1", "}">> >>,
    << <<Q>> \o RefinedKey \o <<Q, ":", "{", "\n", "}">> >>,
    << <<Q>> \o RefinedKey \o <<Q, ":", "[", "1", "]">> >> }
\* a string value that holds a closing brace and three backticks
OtherMembers ==
  { <<>>,
    << <<Q, "a", Q, ":", Q, "}", Tick, Tick, Tick, Q>> >> }

RECURSIVE Join(_)
\* the member texts of ms separated by commas
Join(ms) ==
  IF ms = <<>> THEN <<>>
  ELSE IF Len(ms) = 1 THEN ms[1]
  ELSE ms[1] \o <<",", "\n">> \o Join(Tail(ms))

ObjectTexts ==
  {<<"{">> \o Join(r \o f \o o) \o <<"}">> :
     r \in RawMembers, f \in RefinedMembers, o \in OtherMembers}

\* what stands where the JSON should be: an object, nothing, or broken JSON
Bodies ==
  ObjectTexts \cup {<<>>, <<"{", Q, "a", Q, ":", "1">>, <<"{", "x", "}">>}

\* the label after the opening fence; "none" for a reply without a fence
Labels == {"none", "json", "JSON", "text"}

ReplyOf(pre, label, body, post) ==
  IF label = "none" THEN pre \o body \o post
  ELSE pre \o <<Tick, Tick, Tick, label, "\n">> \o body \o <<"\n", Tick, Tick, Tick>> \o post

\* the prose before and after the body: at most MaxProse symbols in all
ProsePairs ==
  {pp \in SeqsUpTo(ProseSymbols, MaxProse) \X SeqsUpTo(ProseSymbols, MaxProse) :
     Len(pp[1]) + Len(pp[2]) <= MaxProse}

\* the replies: a body, fenced or not, with prose around it
Replies ==
  {ReplyOf(pp[1], label, body, pp[2]) :
     pp \in ProsePairs, label \in Labels, body \in Bodies}

\* response bodies of the table conversion API
HtmlBodies ==
  { <<>>,
    <<"<table>">>,
    <<"\n", "<!DocType HTML", ">", "<table>">>,
    <<"<table>", "<!doctype html", ">">> }

(***************************************************************************)
(* State                                                                   *)
(***************************************************************************)
VARIABLES
  gemini_analysis_data, gemini_error, raw_text_on_json_error,
  raw_table_html_content, raw_table_api_error,
  refined_table_html_content, refined_table_api_error,
  uploaded_file,         \* whether the uploader holds a file
  raw_text,              \* locals of the button handler
  raw_data_for_api, refined_data_for_api,
  pc,                    \* position of the script run
  calls,                 \* what the current analysis has called, with the results
  status,                \* the final status message of the current run
  had_results,           \* whether the session held results when the button was pressed
  view                   \* what the current run of the script has drawn

session == <<gemini_analysis_data, gemini_error, raw_text_on_json_error,
             raw_table_html_content, raw_table_api_error,
             refined_table_html_content, refined_table_api_error>>
locals == <<raw_text, raw_data_for_api, refined_data_for_api>>
vars == <<session, uploaded_file, locals, pc, calls, status, had_results, view>>

NoView ==
  [errors |-> {}, raw_text_shown |-> None, tabs |-> FALSE, json |-> None,
   raw_table |-> None, raw_download |-> None,
   refined_table |-> None, refined_download |-> None, info |-> {}]

\* lines 158-166
Init ==
  /\ gemini_analysis_data = None
  /\ gemini_error = None
  /\ raw_text_on_json_error = None
  /\ raw_table_html_content = None
  /\ raw_table_api_error = None
  /\ refined_table_html_content = None
  /\ refined_table_api_error = None
  /\ uploaded_file = FALSE
  /\ raw_text = None
  /\ raw_data_for_api = None
  /\ refined_data_for_api = None
  /\ pc = "display"
  /\ calls = <<>>
  /\ status = "none"
  /\ had_results = FALSE
  /\ view = NoView

(***************************************************************************)
(* The script                                                              *)
(***************************************************************************)
Call(op, kind, body) == [op |-> op, kind |-> kind, body |-> body]

\* line 155: the user puts a file into the uploader; the script reruns
Upload ==
  /\ pc = "idle" /\ ~uploaded_file
  /\ uploaded_file' = TRUE
  /\ status' = "none"
  /\ view' = NoView
  /\ pc' = "display"
  /\ UNCHANGED <<session, locals, calls, had_results>>

\* line 155: the user clears the uploader; the script reruns
Remove ==
  /\ pc = "idle" /\ uploaded_file
  /\ uploaded_file' = FALSE
  /\ status' = "none"
  /\ view' = NoView
  /\ pc' = "display"
  /\ UNCHANGED <<session, locals, calls, had_results>>

\* the fields of the raw table are left as they are
ResetState_partial ==
  /\ gemini_analysis_data' = None
  /\ gemini_error' = None
  /\ raw_text_on_json_error' = None
  /\ refined_table_html_content' = None
  /\ refined_table_api_error' = None
  /\ UNCHANGED <<raw_table_html_content, raw_table_api_error>>

\* lines 173-179: Reset State
ResetState ==
  /\ gemini_analysis_data' = None
  /\ gemini_error' = None
  /\ raw_text_on_json_error' = None
  /\ raw_table_html_content' = None
  /\ raw_table_api_error' = None
  /\ refined_table_html_content' = None
  /\ refined_table_api_error' = None

\* lines 168-181: the button is pressed
Analyze ==
  /\ pc = "idle" /\ uploaded_file
  /\ ResetState
  /\ raw_data_for_api' = None
  /\ refined_data_for_api' = None
  /\ raw_text' = None
  /\ calls' = <<>>
  /\ had_results' = (gemini_analysis_data # None)
  /\ status' = "none"
  /\ view' = NoView
  /\ pc' = "gemini"
  /\ UNCHANGED uploaded_file

\* line 185 raises: the file is not an image PIL can open (caught at line 246)
OpenImageFails ==
  /\ pc = "gemini"
  /\ calls' = Append(calls, Call("Image.open", "Exception", <<>>))
  /\ gemini_error' = Some(GeminiMessage("Exception"))
  /\ pc' = "raw"
  /\ UNCHANGED <<gemini_analysis_data, raw_text_on_json_error, raw_table_html_content,
                 raw_table_api_error, refined_table_html_content,
                 refined_table_api_error, uploaded_file, locals, status,
                 had_results, view>>

\* lines 185-191 and 242-246: generate_content or response.text raises
GeminiFails ==
  /\ pc = "gemini"
  /\ \E exc \in GeminiExceptions :
       /\ calls' = calls \o <<Call("Image.open", "ok", <<>>),
                              Call("generate_content", exc, <<>>)>>
       /\ gemini_error' = Some(GeminiMessage(exc))
  /\ pc' = "raw"
  /\ UNCHANGED <<gemini_analysis_data, raw_text_on_json_error, raw_table_html_content,
                 raw_table_api_error, refined_table_html_content,
                 refined_table_api_error, uploaded_file, locals, status,
                 had_results, view>>

\* lines 185-191: the model replies
GeminiReplies ==
  /\ pc = "gemini"
  /\ \E reply \in Replies :
       /\ calls' = calls \o <<Call("Image.open", "ok", <<>>),
                              Call("generate_content", "ok", reply)>>
       /\ raw_text' = Some(reply)
  /\ pc' = "parse"
  /\ UNCHANGED <<session, uploaded_file, raw_data_for_api, refined_data_for_api,
                 status, had_results, view>>

\* the section is taken without a look at its type
Section_untyped(data, key, type) ==
  IF key \in DOMAIN data THEN Some(data[key]) ELSE None

\* lines 219-221 and 227-229: the section under key when it has the wanted type
Section(data, key, type) ==
  IF key \in DOMAIN data /\ IsInstance(data[key], type) THEN Some(data[key]) ELSE None

\* the candidate is kept for display instead of the reply
Fail_candidate(msg) ==
  /\ gemini_error' = Some(msg)
  /\ raw_text_on_json_error' = JsonString(raw_text[1])
  /\ UNCHANGED <<gemini_analysis_data, raw_data_for_api, refined_data_for_api>>

\* lines 207-209, 211-213 and 235-236: an extraction failure is stored
Fail(msg) ==
  /\ gemini_error' = Some(msg)
  /\ raw_text_on_json_error' = raw_text
  /\ UNCHANGED <<gemini_analysis_data, raw_data_for_api, refined_data_for_api>>

\* lines 194-239: Parse Gemini JSON Response
ParseResponse ==
  /\ pc = "parse"
  /\ LET json_string == JsonString(raw_text[1])
     IN  IF Truthy(json_string)
         THEN LET loaded == Loads(json_string[1])
              IN  IF loaded # None
                  THEN /\ gemini_analysis_data' = loaded
                       /\ raw_data_for_api' = Section(loaded[1], RawKey, "list")
                       /\ refined_data_for_api' = Section(loaded[1], RefinedKey, "dict")
                       /\ UNCHANGED <<gemini_error, raw_text_on_json_error>>
                  ELSE Fail(MsgDecode)
         ELSE Fail(ScanError(raw_text[1]))
  /\ pc' = "raw"
  /\ UNCHANGED <<raw_table_html_content, raw_table_api_error, refined_table_html_content,
                 refined_table_api_error, uploaded_file, raw_text, calls, status,
                 had_results, view>>

\* a raw table call that raised is made a second time
RawTable_retry ==
  /\ pc = "raw"
  /\ IF raw_data_for_api # None
     THEN IF IsEmptyValue(raw_data_for_api[1])
          THEN /\ raw_table_api_error' = Some(MsgEmpty)
               /\ pc' = "refined"
               /\ UNCHANGED <<raw_table_html_content, calls>>
          ELSE \/ \E body \in HtmlBodies :
                    /\ calls' = Append(calls, Call("post_raw", "ok", body))
                    /\ raw_table_html_content' = Some(body)
                    /\ pc' = "refined"
                    /\ UNCHANGED raw_table_api_error
               \/ \E exc \in RenderExceptions :
                    /\ calls' = calls \o <<Call("post_raw", exc, <<>>), Call("post_raw", exc, <<>>)>>
                    /\ IF Catching(exc) # {}
                       THEN raw_table_api_error' = Some(RenderMessage(exc)) /\ pc' = "refined"
                       ELSE UNCHANGED raw_table_api_error /\ pc' = "crashed"
                    /\ UNCHANGED raw_table_html_content
     ELSE /\ IF ~TruthyMsg(gemini_error)
             THEN raw_table_api_error' = Some(MsgMissing)
             ELSE UNCHANGED raw_table_api_error
          /\ pc' = "refined"
          /\ UNCHANGED <<raw_table_html_content, calls>>
  /\ UNCHANGED <<gemini_analysis_data, gemini_error, raw_text_on_json_error,
                 refined_table_html_content, refined_table_api_error,
                 uploaded_file, locals, status, had_results, view>>

\* lines 249-273: Call Raw Table Conversion API.  An exception that no except
\* clause catches would end the run of the script there.
RawTable ==
  /\ pc = "raw"
  /\ IF raw_data_for_api # None
     THEN IF IsEmptyValue(raw_data_for_api[1])
          THEN /\ raw_table_api_error' = Some(MsgEmpty)
               /\ pc' = "refined"
               /\ UNCHANGED <<raw_table_html_content, calls>>
          ELSE \/ \E body \in HtmlBodies :
                    /\ calls' = Append(calls, Call("post_raw", "ok", body))
                    /\ raw_table_html_content' = Some(body)
                    /\ pc' = "refined"
                    /\ UNCHANGED raw_table_api_error
               \/ \E exc \in RenderExceptions :
                    /\ calls' = Append(calls, Call("post_raw", exc, <<>>))
                    /\ IF Catching(exc) # {}
                       THEN raw_table_api_error' = Some(RenderMessage(exc)) /\ pc' = "refined"
                       ELSE UNCHANGED raw_table_api_error /\ pc' = "crashed"
                    /\ UNCHANGED raw_table_html_content
     ELSE /\ IF ~TruthyMsg(gemini_error)
             THEN raw_table_api_error' = Some(MsgMissing)
             ELSE UNCHANGED raw_table_api_error
          /\ pc' = "refined"
          /\ UNCHANGED <<raw_table_html_content, calls>>
  /\ UNCHANGED <<gemini_analysis_data, gemini_error, raw_text_on_json_error,
                 refined_table_html_content, refined_table_api_error,
                 uploaded_file, locals, status, had_results, view>>

\* the missing-section message of the refined table is stored even when the
\* Gemini stage failed
RefinedTable_unguarded ==
  /\ pc = "refined"
  /\ IF refined_data_for_api # None
     THEN IF IsEmptyValue(refined_data_for_api[1])
          THEN /\ refined_table_api_error' = Some(MsgEmpty)
               /\ pc' = "final"
               /\ UNCHANGED <<refined_table_html_content, calls>>
          ELSE \/ \E body \in HtmlBodies :
                    /\ calls' = Append(calls, Call("post_refined", "ok", body))
                    /\ refined_table_html_content' = Some(body)
                    /\ pc' = "final"
                    /\ UNCHANGED refined_table_api_error
               \/ \E exc \in RenderExceptions :
                    /\ calls' = Append(calls, Call("post_refined", exc, <<>>))
                    /\ IF Catching(exc) # {}
                       THEN refined_table_api_error' = Some(RenderMessage(exc)) /\ pc' = "final"
                       ELSE UNCHANGED refined_table_api_error /\ pc' = "crashed"
                    /\ UNCHANGED refined_table_html_content
     ELSE /\ refined_table_api_error' = Some(MsgMissing)
          /\ pc' = "final"
          /\ UNCHANGED <<refined_table_html_content, calls>>
  /\ UNCHANGED <<gemini_analysis_data, gemini_error, raw_text_on_json_error,
                 raw_table_html_content, raw_table_api_error,
                 uploaded_file, locals, status, had_results, view>>

\* lines 276-300: Call Refined Table Conversion API
RefinedTable ==
  /\ pc = "refined"
  /\ IF refined_data_for_api # None
     THEN IF IsEmptyValue(refined_data_for_api[1])
          THEN /\ refined_table_api_error' = Some(MsgEmpty)
               /\ pc' = "final"
               /\ UNCHANGED <<refined_table_html_content, calls>>
          ELSE \/ \E body \in HtmlBodies :
                    /\ calls' = Append(calls, Call("post_refined", "ok", body))
                    /\ refined_table_html_content' = Some(body)
                    /\ pc' = "final"
                    /\ UNCHANGED refined_table_api_error
               \/ \E exc \in RenderExceptions :
                    /\ calls' = Append(calls, Call("post_refined", exc, <<>>))
                    /\ IF Catching(exc) # {}
                       THEN refined_table_api_error' = Some(RenderMessage(exc)) /\ pc' = "final"
                       ELSE UNCHANGED refined_table_api_error /\ pc' = "crashed"
                    /\ UNCHANGED refined_table_html_content
     ELSE /\ IF ~TruthyMsg(gemini_error)
             THEN refined_table_api_error' = Some(MsgMissing)
             ELSE UNCHANGED refined_table_api_error
          /\ pc' = "final"
          /\ UNCHANGED <<refined_table_html_content, calls>>
  /\ UNCHANGED <<gemini_analysis_data, gemini_error, raw_text_on_json_error,
                 raw_table_html_content, raw_table_api_error,
                 uploaded_file, locals, status, had_results, view>>

\* the error of the refined table is not looked at
FinalStatus_two ==
  /\ pc = "final"
  /\ status' = IF ~TruthyMsg(gemini_error) /\ ~TruthyMsg(raw_table_api_error)
               THEN "success" ELSE "warning"
  /\ pc' = "display"
  /\ UNCHANGED <<session, uploaded_file, locals, calls, had_results, view>>

\* lines 303-307: Final Status Update
FinalStatus ==
  /\ pc = "final"
  /\ status' = IF ~TruthyMsg(gemini_error) /\ ~TruthyMsg(raw_table_api_error)
                  /\ ~TruthyMsg(refined_table_api_error)
               THEN "success" ELSE "warning"
  /\ pc' = "display"
  /\ UNCHANGED <<session, uploaded_file, locals, calls, had_results, view>>

\* lines 336-357 and 361-381: one table tab
TabTable(html, title) == IF Truthy(html) THEN html ELSE None
TabDownload(html, title) ==
  IF Truthy(html) THEN Some(generate_full_html_doc(html[1], title)) ELSE None

\* lines 310-388: what the results area shows for the session state
View ==
  [errors |-> {f \in {"gemini", "raw", "refined"} :
                 \/ f = "gemini" /\ TruthyMsg(gemini_error)
                 \/ f = "raw" /\ TruthyMsg(raw_table_api_error)
                 \/ f = "refined" /\ TruthyMsg(refined_table_api_error)},
   raw_text_shown |-> IF TruthyMsg(gemini_error) /\ Truthy(raw_text_on_json_error)
                      THEN raw_text_on_json_error ELSE None,
   tabs |-> Truthy(gemini_analysis_data),
   json |-> IF Truthy(gemini_analysis_data) THEN gemini_analysis_data ELSE None,
   raw_table |-> IF Truthy(gemini_analysis_data)
                 THEN TabTable(raw_table_html_content, "Raw Extracted Data") ELSE None,
   raw_download |-> IF Truthy(gemini_analysis_data)
                    THEN TabDownload(raw_table_html_content, "Raw Extracted Data") ELSE None,
   refined_table |-> IF Truthy(gemini_analysis_data)
                     THEN TabTable(refined_table_html_content, "Refined QA Report") ELSE None,
   refined_download |-> IF Truthy(gemini_analysis_data)
                        THEN TabDownload(refined_table_html_content, "Refined QA Report")
                        ELSE None,
   info |-> IF Truthy(gemini_analysis_data)
            THEN {m \in {"raw_pending", "refined_pending"} :
                    \/ m = "raw_pending" /\ ~Truthy(raw_table_html_content)
                         /\ ~TruthyMsg(raw_table_api_error)
                    \/ m = "refined_pending" /\ ~Truthy(refined_table_html_content)
                         /\ ~TruthyMsg(refined_table_api_error)}
            ELSE IF ~TruthyMsg(gemini_error) /\ ~uploaded_file THEN {"upload"}
            ELSE IF ~TruthyMsg(gemini_error) THEN {"click"}
            ELSE {}]

\* lines 310-388: Display Results Area, the end of every run of the script
Display ==
  /\ pc = "display"
  /\ view' = View
  /\ raw_text' = None
  /\ raw_data_for_api' = None
  /\ refined_data_for_api' = None
  /\ pc' = "idle"
  /\ UNCHANGED <<session, uploaded_file, calls, status, had_results>>

Next ==
  \/ Upload
  \/ Remove
  \/ Analyze
  \/ OpenImageFails
  \/ GeminiFails
  \/ GeminiReplies
  \/ ParseResponse
  \/ RawTable
  \/ RefinedTable
  \/ FinalStatus
  \/ Display

Spec == Init /\ [][Next]_vars


(***************************************************************************)
(* Properties                                                              *)
(***************************************************************************)
\* the model replied in the current analysis, which has run all its steps
Replied ==
  /\ pc = "final"
  /\ \E n \in DOMAIN calls : calls[n].op = "generate_content" /\ calls[n].kind = "ok"

Issued(op) == \E n \in DOMAIN calls : calls[n].op = op
CallOf(op) == calls[CHOOSE n \in DOMAIN calls : calls[n].op = op]

\* the reply of the current analysis
Reply == calls[CHOOSE n \in DOMAIN calls : calls[n].op = "generate_content"].body

\* t is the text of one JSON object
IsObjectText(t) == t # <<>> /\ t[1] = "{" /\ IsJson(t)

\* the object texts that a json fence of text encloses: an opening fence with
\* the label json in any case, whitespace, the object, whitespace, a closing fence
FencedObjects(text) ==
  LET Opens == {p \in 1..Len(text) :
                  Ticks(text, p) /\ p + 3 <= Len(text) /\ Lower(text[p + 3]) = "json"}
      Closes == {e \in 1..Len(text) : text[e] = "}" /\ Ticks(text, SkipWs(text, e + 1))}
  IN  {t \in {SubSeq(text, SkipWs(text, p + 4), e) : p \in Opens, e \in Closes} :
         IsObjectText(t)}

\* the first '{' and the last '}' of text, 0 when there is none
FirstOpen(text) ==
  IF \E i \in DOMAIN text : text[i] = "{"
  THEN CHOOSE i \in DOMAIN text : text[i] = "{" /\ \A k \in 1..(i - 1) : text[k] # "{"
  ELSE 0
LastClose(text) ==
  IF \E i \in DOMAIN text : text[i] = "}"
  THEN CHOOSE i \in DOMAIN text : text[i] = "}" /\ \A k \in (i + 1)..Len(text) : text[k] # "}"
  ELSE 0

\* the candidate of text: the fenced match, else the span from the first '{'
\* to the last '}', None when there is neither
Candidate(text) ==
  LET match == FencedMatch(text)
  IN  IF match # None THEN match
      ELSE IF FirstOpen(text) # 0 /\ LastClose(text) > FirstOpen(text)
           THEN Some(SubSeq(text, FirstOpen(text), LastClose(text)))
           ELSE None

\* extraction succeeds on the candidate c: there is one and it parses
Parses(c) == c # None /\ IsJson(c[1])
CandidateParses(text) == Parses(Candidate(text))

\* C1: whenever the reply contains a json fence (label in any letter case)
\* that encloses a well-formed JSON object, the analysis stores exactly that
\* object in gemini_analysis_data and sets no gemini_error, whatever stands
\* before or after the fence.
C1_FencedObjectStored ==
  (Replied /\ FencedObjects(Reply) # {}) =>
     /\ gemini_error = None
     /\ \E t \in FencedObjects(Reply) : gemini_analysis_data = Loads(t)

\* C2 as stated: every reply that contains a '{' and does not parse fails
\* with the JSON-decode message, and raw_text_on_json_error is the full reply.
C2_Original ==
  (Replied /\ FirstOpen(Reply) # 0 /\ ~CandidateParses(Reply)) =>
     /\ gemini_error = Some(MsgDecode)
     /\ raw_text_on_json_error = Some(Reply)

\* C2 as amended: a reply that contains a '{' and does not parse fails with
\* the JSON-decode message when it has a candidate (a fenced match, or a '}'
\* after the first '{'), and with the matching-braces message when it has
\* none; in both cases raw_text_on_json_error is the full reply.
C2_MalformedClassified ==
  (Replied /\ FirstOpen(Reply) # 0 /\ ~CandidateParses(Reply)) =>
     /\ gemini_error = IF Candidate(Reply) # None THEN Some(MsgDecode)
                       ELSE Some(MsgNoMatchingBraces)
     /\ raw_text_on_json_error = Some(Reply)

\* a reply with an opening brace and no closing brace after it has failed
C2_Witness ==
  /\ Replied /\ FirstOpen(Reply) # 0 /\ Candidate(Reply) = None
  /\ gemini_error = Some(MsgNoMatchingBraces)

\* C3: every extraction failure is reported: gemini_error is set,
\* raw_text_on_json_error is the whole reply (not the candidate),
\* gemini_analysis_data is None, and a reply without '{' fails with the
\* message of the missing starting brace.
C3_FailureReported ==
  (Replied /\ ~CandidateParses(Reply)) =>
     /\ TruthyMsg(gemini_error)
     /\ raw_text_on_json_error = Some(Reply)
     /\ gemini_analysis_data = None
     /\ (FirstOpen(Reply) = 0 => gemini_error = Some(MsgNoStartingBrace))

\* a candidate shorter than the reply did not parse and the reply was kept
C3_Witness ==
  /\ Replied /\ Candidate(Reply) # None /\ ~CandidateParses(Reply)
  /\ Candidate(Reply)[1] # Reply
  /\ raw_text_on_json_error = Some(Reply)

\* the object the reply denotes, when its candidate parses
ReplyData == Loads(Candidate(Reply)[1])[1]

\* C4: whenever the candidate parses, the record is extracted and shown:
\* gemini_error stays unset, gemini_analysis_data is the parsed object and
\* the results area shows it in the JSON Output tab, for every parsed object.
C4_ParsedIsShown ==
  (pc = "idle" /\ status # "none" /\ Issued("generate_content")
     /\ CallOf("generate_content").kind = "ok" /\ CandidateParses(Reply)) =>
     /\ gemini_error = None
     /\ gemini_analysis_data = Some(ReplyData)
     /\ view.tabs
     /\ view.json = gemini_analysis_data

\* the section under key is present with the wanted opening bracket and is
\* not empty
Populated(d, key, open) ==
  key \in DOMAIN d /\ d[key][1] = open /\ Len(d[key]) > 2

Failed(op) == \E n \in DOMAIN calls : calls[n].op = op /\ calls[n].kind # "ok"
Count(op) == Cardinality({n \in DOMAIN calls : calls[n].op = op})

\* C5: once both table steps of an analysis whose reply parsed are done,
\* the rendering call of a section was issued if and only if the section is
\* present with the expected type and is not empty, and the section's error
\* field is set if and only if the section is not so or its call failed,
\* whatever happened to the other section; gemini_error stays unset.
C5_SectionsIndependent ==
  Replied =>
     LET c == Candidate(Reply)
         d == Loads(c[1])[1]
     IN  Parses(c) =>
           /\ gemini_error = None
           /\ Issued("post_raw") <=> Populated(d, RawKey, "[")
           /\ raw_table_api_error # None <=>
                (~Populated(d, RawKey, "[") \/ Failed("post_raw"))
           /\ Issued("post_refined") <=> Populated(d, RefinedKey, "{")
           /\ refined_table_api_error # None <=>
                (~Populated(d, RefinedKey, "{") \/ Failed("post_refined"))

\* the raw call failed and the refined call was still made and succeeded
C5_Witness ==
  /\ pc = "final" /\ Failed("post_raw")
  /\ Issued("post_refined") /\ ~Failed("post_refined")
  /\ raw_table_api_error # None /\ refined_table_api_error = None
  /\ refined_table_html_content # None

Rank(op) ==
  CASE op = "Image.open" -> 0
    [] op = "generate_content" -> 1
    [] op = "post_raw" -> 2
    [] op = "post_refined" -> 3

\* the calls are in the order inference, raw table, refined table, none is
\* repeated, and a rendering call comes only after a reply whose extraction
\* succeeded
CallsOrdered ==
  /\ \A m, n \in DOMAIN calls : m < n => Rank(calls[m].op) < Rank(calls[n].op)
  /\ \A n \in DOMAIN calls :
       calls[n].op \in {"post_raw", "post_refined"} =>
          /\ \E m \in 1..(n - 1) : calls[m].op = "generate_content" /\ calls[m].kind = "ok"
          /\ gemini_error = None
          /\ gemini_analysis_data # None

\* C6 as stated: in every analysis exactly one inference call is attempted,
\* first; rendering calls come only after it returned and extraction
\* succeeded; the raw call ends before the refined call starts; no call is
\* repeated.
C6_Original ==
  /\ CallsOrdered
  /\ calls # <<>> => Count("generate_content") = 1

\* C6 as amended: at most one inference call is attempted, exactly one when
\* the uploaded image opens and none when opening it raises (gemini_error is
\* then set and no call goes out); the rest as stated.
C6_CallsOrderedOnce ==
  /\ CallsOrdered
  /\ calls # <<>> =>
       /\ calls[1].op = "Image.open"
       /\ Count("generate_content") = IF calls[1].kind = "ok" THEN 1 ELSE 0
       /\ calls[1].kind # "ok" => Len(calls) = 1 /\ TruthyMsg(gemini_error)

\* an analysis that made the inference call and both rendering calls
C6_Witness ==
  /\ pc = "final"
  /\ [n \in DOMAIN calls |-> calls[n].op] =
       <<"Image.open", "generate_content", "post_raw", "post_refined">>


\* the two fields of a table as the responses of this analysis decide them
ExpectedTable(d, key, open, op) ==
  IF Populated(d, key, open)
  THEN IF CallOf(op).kind = "ok"
       THEN <<Some(CallOf(op).body), None>>
       ELSE <<None, Some(RenderMessage(CallOf(op).kind))>>
  ELSE IF key \in DOMAIN d /\ d[key][1] = open
       THEN <<None, Some(MsgEmpty)>>
       ELSE <<None, Some(MsgMissing)>>

\* the seven fields as the responses of this analysis alone decide them
ExpectedSession ==
  IF ~Issued("generate_content")
  THEN <<None, Some(GeminiMessage("Exception")), None, None, None, None, None>>
  ELSE IF CallOf("generate_content").kind # "ok"
  THEN <<None, Some(GeminiMessage(CallOf("generate_content").kind)),
         None, None, None, None, None>>
  ELSE LET c == Candidate(Reply)
           d == Loads(c[1])[1]
       IN  IF ~Parses(c)
           THEN <<None,
                  Some(IF c # None THEN MsgDecode
                       ELSE IF FirstOpen(Reply) # 0 THEN MsgNoMatchingBraces
                       ELSE MsgNoStartingBrace),
                  Some(Reply), None, None, None, None>>
           ELSE <<Some(d), None, None>>
                  \o ExpectedTable(d, RawKey, "[", "post_raw")
                  \o ExpectedTable(d, RefinedKey, "{", "post_refined")

\* C7: after any sequence of analyses the seven session fields are what the
\* reply and the rendering responses of the most recent analysis decide;
\* nothing written by an earlier analysis survives.
C7_LastActionDecides ==
  pc = "final" => session = ExpectedSession

\* an analysis that started over the results of an earlier one and failed
C7_Witness ==
  /\ pc = "final" /\ had_results
  /\ gemini_error # None /\ gemini_analysis_data = None
  /\ raw_table_html_content = None /\ refined_table_html_content = None

\* the stages of the current analysis that failed have their error set
FailuresRecorded ==
  /\ (\E n \in DOMAIN calls :
        calls[n].op \in {"Image.open", "generate_content"} /\ calls[n].kind # "ok")
       => TruthyMsg(gemini_error)
  /\ (Replied /\ ~CandidateParses(Reply)) => TruthyMsg(gemini_error)
  /\ Failed("post_raw") => TruthyMsg(raw_table_api_error)
  /\ Failed("post_refined") => TruthyMsg(refined_table_api_error)

StatusRight ==
  status # "none" =>
     /\ status = IF gemini_error = None /\ raw_table_api_error = None
                    /\ refined_table_api_error = None
                 THEN "success" ELSE "warning"
     /\ FailuresRecorded

\* the positions of the button handler, in the order the script passes them
Position(p) ==
  CASE p = "gemini" -> 1
    [] p = "parse" -> 2
    [] p = "raw" -> 3
    [] p = "refined" -> 4
    [] p = "final" -> 5
    [] OTHER -> 6

\* at every position of the handler its next step can be taken (the parse
\* step needs nothing but the reply)
NeverStuck ==
  /\ pc = "parse" => raw_text # None
  /\ pc \in {"gemini", "raw", "refined", "final"} =>
       ENABLED (\/ OpenImageFails \/ GeminiFails \/ GeminiReplies
                \/ RawTable \/ RefinedTable \/ FinalStatus)

BraceSpan(text) == SubSeq(text, FirstOpen(text), LastClose(text))

\* C9: for a reply without a fenced json block whose span from the first '{'
\* to the last '}' is a well-formed JSON object, gemini_analysis_data is the
\* parse of exactly that span, whatever stands before and after it.
C9_BraceSpanStored ==
  (/\ Replied /\ FencedMatch(Reply) = None
   /\ FirstOpen(Reply) # 0 /\ LastClose(Reply) > FirstOpen(Reply)
   /\ IsObjectText(BraceSpan(Reply))) =>
     /\ gemini_analysis_data = Loads(BraceSpan(Reply))
     /\ gemini_error = None

\* a span with text before it and after it, and a brace pair inside it
C9_Witness ==
  /\ Replied /\ FencedMatch(Reply) = None
  /\ FirstOpen(Reply) > 1 /\ LastClose(Reply) < Len(Reply)
  /\ IsObjectText(BraceSpan(Reply))
  /\ \E i \in (FirstOpen(Reply) + 1)..(LastClose(Reply) - 1) : Reply[i] = "}"
  /\ gemini_analysis_data = Loads(BraceSpan(Reply))

\* x, trimmed and lower-cased, begins with the document-type declaration
BeginsWithDoctype(x) ==
  LET t == Strip(x)
  IN  t # <<>> /\ Lower(t[1]) = "<!doctype html"

\* doc is what generate_full_html_doc made of content
Wrapped(content, doc, title) ==
  /\ doc = content <=> BeginsWithDoctype(content)
  /\ BeginsWithDoctype(doc)
  /\ generate_full_html_doc(doc, title) = doc

\* C10: generate_full_html_doc returns its input unchanged exactly when the
\* input, trimmed and lower-cased, begins with the document-type declaration,
\* otherwise a document that begins with it; applying it to its own result
\* changes nothing.
C10_WrapOnce ==
  /\ view.raw_download # None =>
       Wrapped(raw_table_html_content[1], view.raw_download[1], "Raw Extracted Data")
  /\ view.refined_download # None =>
       Wrapped(refined_table_html_content[1], view.refined_download[1], "Refined QA Report")

\* a fragment was wrapped for one download and a complete document with
\* leading whitespace and mixed case was passed through for the other
C10_Witness ==
  /\ view.raw_download # None /\ view.refined_download # None
  /\ view.raw_download[1] # raw_table_html_content[1]
  /\ view.refined_download = refined_table_html_content
  /\ refined_table_html_content[1][1] = "\n"

\* the failure kinds of the requests library that have an except clause of
\* their own
TransportKinds ==
  {"Timeout", "ConnectionError", "SSLError", "HTTPError", "RequestException"}

\* the message of the except clause written for a failure kind
OwnMessage(kind) ==
  Handlers[CHOOSE n \in DOMAIN Handlers : Handlers[n].class = kind].msg

\* the rendering call op, when it raised a transport failure, left the
\* message written for that kind in err
RecordedUnderOwn(op, err) ==
  \A n \in DOMAIN calls :
    calls[n].op = op /\ calls[n].kind \in TransportKinds
      => err = Some(OwnMessage(calls[n].kind))

\* C11: once both table steps are done, a rendering call that raised a
\* timeout, a connection failure, a TLS failure, a non-2xx status or another
\* transport failure has left in its table's error field the message of the
\* except clause written for exactly that kind, and not that of another kind.
C11_OwnClassification ==
  pc = "final" =>
    /\ RecordedUnderOwn("post_raw", raw_table_api_error)
    /\ RecordedUnderOwn("post_refined", refined_table_api_error)

\* a table's html content and its error are not both set
TableExclusive(html, err) == ~(html # None /\ err # None)

\* C12: in every state, for each table the html content and the API error
\* are never both set; whenever gemini_error is set, gemini_analysis_data
\* and both tables' html content and API error are all None; and
\* raw_text_on_json_error is set only when gemini_error is set.
C12_SessionInvariant ==
  /\ TableExclusive(raw_table_html_content, raw_table_api_error)
  /\ TableExclusive(refined_table_html_content, refined_table_api_error)
  /\ gemini_error # None =>
       /\ gemini_analysis_data = None
       /\ raw_table_html_content = None /\ raw_table_api_error = None
       /\ refined_table_html_content = None /\ refined_table_api_error = None
  /\ raw_text_on_json_error # None => gemini_error # None

\* an analysis that ended in an extraction failure, run after one that had
\* left a parsed reply in the session
C12_Witness ==
  /\ pc = "display"
  /\ status = "warning"
  /\ had_results
  /\ raw_text_on_json_error # None
  /\ gemini_error # None

====
